---- MODULE Spec2Model ----
(***************************************************************************)
(* Certificate-pinning authorizer (lambda_ssl_pinning.py).                 *)
(*                                                                         *)
(* Spec        : one invocation of lambda_handler, step by step.           *)
(* SpecNorm    : the whitespace normalisation "".join(s.split()) applied   *)
(*               to a pinned and to a retrieved certificate text.          *)
(* SpecExtract : extract_certificate applied to a chain and an index.      *)
(*                                                                         *)
(* A text is a sequence of one-character strings.  A Python value that may *)
(* be None is a record tagged with its type.                               *)
(***************************************************************************)
EXTENDS Integers, Sequences, FiniteSets, TLC

VARIABLES
    pc,                   \* position of lambda_handler
    event,                \* the handler's event argument
    env_secret_name,      \* os.getenv("secret_name")
    requester_ip,         \* local requester_ip
    secret_outcome,       \* what the secret store answered (locals of the try block)
    server_config,        \* local server_config
    tls_behaviour,        \* what the network and the peer did during retrieval
    retrieved_cert_chain, \* local retrieved_cert_chain
    cert_results,         \* local cert_results
    policy,               \* the returned policy document
    escaped,              \* the exception that left the handler, if any
    retrieve_calls,       \* number of calls of get_certificate_chain
    norm,                 \* SpecNorm: texts and their normalised forms
    ext                   \* SpecExtract: arguments and result of extract_certificate

vars == <<pc, event, env_secret_name, requester_ip, secret_outcome, server_config,
          tls_behaviour, retrieved_cert_chain, cert_results, policy, escaped,
          retrieve_calls, norm, ext>>

handlerVars == <<pc, event, env_secret_name, requester_ip, secret_outcome,
                 server_config, tls_behaviour, retrieved_cert_chain, cert_results,
                 policy, escaped, retrieve_calls>>

----------------------------------------------------------------------------
(* Bounds *)

\* longest retrieved chain
MaxChainLen == 4
\* longest text the normalisation is applied to in SpecNorm
MaxTextLen == 3
\* largest index passed to extract_certificate in SpecExtract
MaxIndex == 5

----------------------------------------------------------------------------
(* Texts *)

Letters == {"A", "B"}
\* characters for which str.isspace() holds
WhitespaceChars == {" ", "\n"}
Alphabet == Letters \cup WhitespaceChars

TextsUpTo(n) == UNION {[1..k -> Alphabet] : k \in 0..n}

IsSpace(c) == c \in WhitespaceChars
IsNonSpace(c) == c \notin WhitespaceChars

\* number of leading characters of s that satisfy isspace
RECURSIVE LeadingSpaces(_)
LeadingSpaces(s) ==
    IF s = <<>> \/ ~IsSpace(Head(s)) THEN 0 ELSE 1 + LeadingSpaces(Tail(s))

\* number of leading characters of s that do not satisfy isspace
RECURSIVE LeadingWord(_)
LeadingWord(s) ==
    IF s = <<>> \/ IsSpace(Head(s)) THEN 0 ELSE 1 + LeadingWord(Tail(s))

Drop(s, n) == SubSeq(s, n + 1, Len(s))

\* str.split() without arguments: the maximal runs of non-whitespace, in order
RECURSIVE Split(_)
Split(s) ==
    LET t == Drop(s, LeadingSpaces(s))
    IN  IF t = <<>> THEN <<>>
        ELSE LET w == LeadingWord(t)
             IN  <<SubSeq(t, 1, w)>> \o Split(Drop(t, w))

\* sep.join(words)
RECURSIVE Join(_, _)
Join(sep, words) ==
    IF words = <<>> THEN <<>>
    ELSE IF Len(words) = 1 THEN words[1]
    ELSE words[1] \o sep \o Join(sep, Tail(words))

\* str.strip(): only the surrounding whitespace goes
RECURSIVE RStrip(_)
RStrip(s) ==
    IF s = <<>> \/ ~IsSpace(s[Len(s)]) THEN s ELSE RStrip(SubSeq(s, 1, Len(s) - 1))

StripWhitespace_EndsOnly(s) == RStrip(Drop(s, LeadingSpaces(s)))

\* "".join(s.split())
StripWhitespace(s) == Join(<<>>, Split(s))

----------------------------------------------------------------------------
(* Python values and call outcomes *)

PyNone == [type |-> "NoneType"]
PyStr(s) == [type |-> "str", value |-> s]
IsStr(v) == v.type = "str"

Return(v) == [kind |-> "return", value |-> v]
Raise(e) == [kind |-> "raise", exc |-> e]

\* subclasses of Exception among the errors the model raises
ExceptionClasses ==
    {"KeyError", "TypeError", "AttributeError", "ClientError", "JSONDecodeError",
     "gaierror", "ConnectionRefusedError", "TimeoutError", "ValueError",
     "SSLCertVerificationError", "SSLError", "IndexError"}

----------------------------------------------------------------------------
(* ServerConfig *)

FieldNames == {"URL", "Port", "ServerCert", "IntermediateCert", "RootCert"}
CertFields == {"ServerCert", "IntermediateCert", "RootCert"}

PostInit_StripEnds(c) ==
    [c EXCEPT !.ServerCert = StripWhitespace_EndsOnly(c.ServerCert),
              !.IntermediateCert = StripWhitespace_EndsOnly(c.IntermediateCert),
              !.RootCert = StripWhitespace_EndsOnly(c.RootCert)]

\* __post_init__ on an object whose certificate fields are texts
PostInit(c) ==
    [c EXCEPT !.ServerCert = StripWhitespace(c.ServerCert),
              !.IntermediateCert = StripWhitespace(c.IntermediateCert),
              !.RootCert = StripWhitespace(c.RootCert)]

\* ServerConfig(**d): the generated __init__ takes exactly the five fields and
\* checks no type or value; __post_init__ calls .split() on the certificates
ServerConfig(d) ==
    IF DOMAIN d # FieldNames THEN Raise("TypeError")
    ELSE IF \E f \in CertFields : ~IsStr(d[f]) THEN Raise("AttributeError")
    ELSE Return(PostInit([URL |-> d.URL, Port |-> d.Port,
                          ServerCert |-> d.ServerCert.value,
                          IntermediateCert |-> d.IntermediateCert.value,
                          RootCert |-> d.RootCert.value]))

NoConfig == [unset |-> TRUE]

----------------------------------------------------------------------------
(* The environment of one invocation *)

\* API Gateway authorizer events: a REQUEST event carries requestContext, a
\* TOKEN event does not; both carry methodArn
RequestEvent ==
    [type |-> "REQUEST", methodArn |-> "arn:aws:execute-api:x",
     requestContext |-> [identity |-> [sourceIp |-> "198.51.100.7"]]]
TokenEvent ==
    [type |-> "TOKEN", methodArn |-> "arn:aws:execute-api:x",
     authorizationToken |-> "token"]
Events == {RequestEvent, TokenEvent}

\* os.getenv("secret_name"): unset, set to the empty string, set to a name
EnvValues == {PyNone, PyStr(""), PyStr("prod/pins")}

Urls == {"", "pinned.example"}
Ports == {0, 443}

\* pinned certificate texts as stored in the secret: empty, plain, reformatted
\* (indented and line-wrapped), and a different certificate
SecretTexts ==
    {<<>>, <<"A", "B">>, <<" ", "A", "\n", "B">>, <<"B", "A">>}
SecretCertValues == {PyStr(t) : t \in SecretTexts} \cup {PyNone}

FullDicts ==
    [URL : Urls, Port : Ports, ServerCert : SecretCertValues,
     IntermediateCert : SecretCertValues, RootCert : SecretCertValues]
WithoutKey(d, k) == [f \in (DOMAIN d) \ {k} |-> d[f]]
\* the host stored under the key "Host" instead of "URL"
HostKeyed(d) ==
    [f \in ((DOMAIN d) \ {"URL"}) \cup {"Host"} |-> IF f = "Host" THEN d.URL ELSE d[f]]
WellTyped(d) == \A f \in CertFields : IsStr(d[f])
SecretDicts ==
    FullDicts
    \cup {WithoutKey(d, k) : d \in {e \in FullDicts : WellTyped(e)}, k \in FieldNames}
    \cup {HostKeyed(d) : d \in {e \in FullDicts : WellTyped(e)}}

\* what json.loads yields for a SecretString
PyDict(d) == [type |-> "dict", items |-> d]
PyList == [type |-> "list"]
NotJson == [type |-> "not json"]
SecretStrings == {NotJson, PyList} \cup {PyDict(d) : d \in SecretDicts}

\* the answer of secrets_client.get_secret_value
SecretStoreOutcomes ==
    {Raise("ClientError")}
    \cup {Return([SecretString |-> s]) : s \in SecretStrings}
    \cup {Return([SecretBinary |-> "blob"])}
NoOutcome == [kind |-> "none"]

\* PEM texts of presented certificates: the same certificate wrapped in two
\* ways, and another certificate; each ends with a line break
PemTexts ==
    {<<"A", "B", "\n">>, <<"A", "\n", "B", "\n">>, <<"B", "A", "\n">>}
PemChainsUpTo(n) == UNION {[1..k -> PemTexts] : k \in 1..n}

\* what the network and the peer do when the chain is retrieved
TlsFailures ==
    {[stage |-> "resolve", exc |-> "gaierror", pem |-> <<>>],
     [stage |-> "connect", exc |-> "ConnectionRefusedError", pem |-> <<>>],
     [stage |-> "connect", exc |-> "TimeoutError", pem |-> <<>>],
     [stage |-> "handshake", exc |-> "SSLCertVerificationError", pem |-> <<>>],
     [stage |-> "handshake", exc |-> "SSLError", pem |-> <<>>],
     [stage |-> "chain", exc |-> "AttributeError", pem |-> <<>>],
     [stage |-> "convert", exc |-> "ValueError", pem |-> <<>>]}
TlsSuccesses == {[stage |-> "ok", exc |-> "", pem |-> c] : c \in PemChainsUpTo(MaxChainLen)}
\* a handshake needs a host name and a port to connect to
TlsBehaviours(hostname, port) ==
    IF hostname # "" /\ port > 0 THEN TlsFailures \cup TlsSuccesses ELSE TlsFailures
NoBehaviour == [stage |-> "none", exc |-> "", pem |-> <<>>]

----------------------------------------------------------------------------
(* The functions of the module *)

get_certificate_chain_CatchSslOnly(hostname, port, b) ==
    LET body == IF b.stage = "ok" THEN Return(b.pem) ELSE Raise(b.exc)
    IN  IF body.kind = "raise" /\ body.exc \in {"SSLError", "SSLCertVerificationError"}
        THEN Return(<<>>)
        ELSE body

\* the try block returns the PEM list; "except Exception" returns []
get_certificate_chain(hostname, port, b) ==
    LET body == IF b.stage = "ok" THEN Return(b.pem) ELSE Raise(b.exc)
    IN  IF body.kind = "raise" /\ body.exc \in ExceptionClasses
        THEN Return(<<>>)
        ELSE body

generate_policy(principal_id, effect, resource) ==
    [principalId |-> principal_id,
     policyDocument |->
        [Version |-> "2012-10-17",
         Statement |-> <<[Action |-> "execute-api:Invoke", Effect |-> effect,
                          Resource |-> resource]>>]]
NoPolicy == [unset |-> TRUE]

\* list[i] of Python, i counted from 0, negative i from the end
PyGetItem(list, i) ==
    IF 0 <= i /\ i < Len(list) THEN Return(list[i + 1])
    ELSE IF i < 0 /\ -i <= Len(list) THEN Return(list[Len(list) + i + 1])
    ELSE Raise("IndexError")

extract_certificate_NoStrip(cert_chain, index) ==
    IF Len(cert_chain) > index
    THEN LET item == PyGetItem(cert_chain, index)
         IN  IF item.kind = "raise" THEN item ELSE Return(PyStr(item.value))
    ELSE Return(PyNone)

extract_certificate_EmptyForAbsent(cert_chain, index) ==
    IF Len(cert_chain) > index
    THEN LET item == PyGetItem(cert_chain, index)
         IN  IF item.kind = "raise" THEN item
             ELSE Return(PyStr(StripWhitespace(item.value)))
    ELSE Return(PyStr(<<>>))

extract_certificate_OffByOne(cert_chain, index) ==
    IF Len(cert_chain) >= index
    THEN LET item == PyGetItem(cert_chain, index)
         IN  IF item.kind = "raise" THEN item
             ELSE Return(PyStr(StripWhitespace(item.value)))
    ELSE Return(PyNone)

extract_certificate(cert_chain, index) ==
    IF Len(cert_chain) > index
    THEN LET item == PyGetItem(cert_chain, index)
         IN  IF item.kind = "raise" THEN item
             ELSE Return(PyStr(StripWhitespace(item.value)))
    ELSE Return(PyNone)

\* lines 116-119: the body of the try block of lambda_handler
LoadServerConfig(outcome) ==
    IF outcome.kind = "raise" THEN outcome
    ELSE IF "SecretString" \notin DOMAIN outcome.value THEN Raise("KeyError")
    ELSE LET s == outcome.value.SecretString
         IN  IF s = NotJson THEN Raise("JSONDecodeError")
             ELSE IF s.type # "dict" THEN Raise("TypeError")
             ELSE ServerConfig(s.items)

CompareCertificates_RootIsLast(config, chain) ==
    LET server_cert == extract_certificate(chain, 0)
        intermediate_cert == extract_certificate(chain, 1)
        root_cert == extract_certificate(chain, Len(chain) - 1)
    IN  IF server_cert.kind = "raise" THEN server_cert
        ELSE IF intermediate_cert.kind = "raise" THEN intermediate_cert
        ELSE IF root_cert.kind = "raise" THEN root_cert
        ELSE Return([Server |-> PyStr(config.ServerCert) = server_cert.value,
                     Intermediate |-> PyStr(config.IntermediateCert) = intermediate_cert.value,
                     Root |-> PyStr(config.RootCert) = root_cert.value])

\* lines 134-147: the three extractions and the cert_results dictionary
CompareCertificates(config, chain) ==
    LET server_cert == extract_certificate(chain, 0)
        intermediate_cert == extract_certificate(chain, 1)
        root_cert == extract_certificate(chain, 2)
    IN  IF server_cert.kind = "raise" THEN server_cert
        ELSE IF intermediate_cert.kind = "raise" THEN intermediate_cert
        ELSE IF root_cert.kind = "raise" THEN root_cert
        ELSE Return([Server |-> PyStr(config.ServerCert) = server_cert.value,
                     Intermediate |-> PyStr(config.IntermediateCert) = intermediate_cert.value,
                     Root |-> PyStr(config.RootCert) = root_cert.value])
NoResults == [unset |-> TRUE]

\* all(cert_results.values())
AllMatch(results) == results.Server /\ results.Intermediate /\ results.Root

\* lines 153-156: the effect chosen from cert_results
EffectFor(results) == IF AllMatch(results) THEN "Allow" ELSE "Deny"

----------------------------------------------------------------------------
(* lambda_handler, one action per step *)

InitHandlerIdle ==
    /\ requester_ip = ""
    /\ secret_outcome = NoOutcome
    /\ server_config = NoConfig
    /\ tls_behaviour = NoBehaviour
    /\ retrieved_cert_chain = <<>>
    /\ cert_results = NoResults
    /\ policy = NoPolicy
    /\ escaped = ""
    /\ retrieve_calls = 0

NormIdle == [stage |-> "idle"]
ExtIdle == [stage |-> "idle"]

Init ==
    /\ pc = "start"
    /\ event \in Events
    /\ env_secret_name \in EnvValues
    /\ InitHandlerIdle
    /\ norm = NormIdle
    /\ ext = ExtIdle

\* line 106
ReadEvent ==
    /\ pc = "start"
    /\ IF "requestContext" \in DOMAIN event
       THEN /\ requester_ip' = event.requestContext.identity.sourceIp
            /\ pc' = "env"
            /\ escaped' = escaped
       ELSE /\ escaped' = "KeyError"
            /\ pc' = "raised"
            /\ requester_ip' = requester_ip
    /\ UNCHANGED <<event, env_secret_name, secret_outcome, server_config, tls_behaviour,
                   retrieved_cert_chain, cert_results, policy, retrieve_calls, norm, ext>>

\* lines 109-112
GetSecretName ==
    /\ pc = "env"
    /\ IF IsStr(env_secret_name) /\ env_secret_name.value # ""
       THEN /\ pc' = "load"
            /\ policy' = policy
       ELSE /\ policy' = generate_policy(requester_ip, "Deny", event.methodArn)
            /\ pc' = "done"
    /\ UNCHANGED <<event, env_secret_name, requester_ip, secret_outcome, server_config,
                   tls_behaviour, retrieved_cert_chain, cert_results, escaped,
                   retrieve_calls, norm, ext>>

\* lines 115-122
LoadConfig ==
    /\ pc = "load"
    /\ \E outcome \in SecretStoreOutcomes :
          LET r == LoadServerConfig(outcome)
          IN  /\ secret_outcome' = outcome
              /\ IF r.kind = "return"
                 THEN /\ server_config' = r.value
                      /\ pc' = "retrieve"
                      /\ UNCHANGED <<policy, escaped>>
                 ELSE IF r.exc \in ExceptionClasses
                 THEN /\ policy' = generate_policy("user", "Deny", event.methodArn)
                      /\ pc' = "done"
                      /\ UNCHANGED <<server_config, escaped>>
                 ELSE /\ escaped' = r.exc
                      /\ pc' = "raised"
                      /\ UNCHANGED <<server_config, policy>>
    /\ UNCHANGED <<event, env_secret_name, requester_ip, tls_behaviour,
                   retrieved_cert_chain, cert_results, retrieve_calls, norm, ext>>

\* a second attempt after an empty result
RetrieveChain_Retry ==
    /\ pc = "retrieve"
    /\ \E b \in TlsBehaviours(server_config.URL, server_config.Port) :
          LET r == get_certificate_chain(server_config.URL, server_config.Port, b)
          IN  /\ tls_behaviour' = b
              /\ retrieve_calls' = retrieve_calls + 1
              /\ IF r.kind = "return"
                 THEN /\ retrieved_cert_chain' = r.value
                      /\ pc' = IF r.value = <<>> /\ retrieve_calls = 0
                               THEN "retrieve" ELSE "check"
                      /\ escaped' = escaped
                 ELSE /\ escaped' = r.exc
                      /\ pc' = "raised"
                      /\ retrieved_cert_chain' = retrieved_cert_chain
    /\ UNCHANGED <<event, env_secret_name, requester_ip, secret_outcome, server_config,
                   cert_results, policy, norm, ext>>

\* line 127
RetrieveChain ==
    /\ pc = "retrieve"
    /\ \E b \in TlsBehaviours(server_config.URL, server_config.Port) :
          LET r == get_certificate_chain(server_config.URL, server_config.Port, b)
          IN  /\ tls_behaviour' = b
              /\ retrieve_calls' = retrieve_calls + 1
              /\ IF r.kind = "return"
                 THEN /\ retrieved_cert_chain' = r.value
                      /\ pc' = "check"
                      /\ escaped' = escaped
                 ELSE /\ escaped' = r.exc
                      /\ pc' = "raised"
                      /\ retrieved_cert_chain' = retrieved_cert_chain
    /\ UNCHANGED <<event, env_secret_name, requester_ip, secret_outcome, server_config,
                   cert_results, policy, norm, ext>>

\* lines 129-131
CheckChain ==
    /\ pc = "check"
    /\ IF retrieved_cert_chain = <<>>
       THEN /\ policy' = generate_policy(requester_ip, "Deny", event.methodArn)
            /\ pc' = "done"
       ELSE /\ pc' = "compare"
            /\ policy' = policy
    /\ UNCHANGED <<event, env_secret_name, requester_ip, secret_outcome, server_config,
                   tls_behaviour, retrieved_cert_chain, cert_results, escaped,
                   retrieve_calls, norm, ext>>

\* lines 133-156
CompareCerts ==
    /\ pc = "compare"
    /\ LET r == CompareCertificates(server_config, retrieved_cert_chain)
       IN  IF r.kind = "return"
           THEN /\ cert_results' = r.value
                /\ policy' = generate_policy(requester_ip, EffectFor(r.value),
                                             event.methodArn)
                /\ pc' = "done"
                /\ escaped' = escaped
           ELSE /\ escaped' = r.exc
                /\ pc' = "raised"
                /\ UNCHANGED <<cert_results, policy>>
    /\ UNCHANGED <<event, env_secret_name, requester_ip, secret_outcome, server_config,
                   tls_behaviour, retrieved_cert_chain, retrieve_calls, norm, ext>>

Next ==
    \/ ReadEvent
    \/ GetSecretName
    \/ LoadConfig
    \/ RetrieveChain
    \/ CheckChain
    \/ CompareCerts

Spec == Init /\ [][Next]_vars

----------------------------------------------------------------------------
(* SpecNorm: the normalisation of a pinned text (lines 27-29) and of a      *)
(* retrieved text (line 100), applied once and then once more               *)

HandlerIdle ==
    /\ pc = "idle"
    /\ event = RequestEvent
    /\ env_secret_name = PyNone
    /\ InitHandlerIdle

InitNorm ==
    /\ HandlerIdle
    /\ ext = ExtIdle
    /\ \E s \in TextsUpTo(MaxTextLen), t \in TextsUpTo(MaxTextLen) :
          norm = [stage |-> "raw", pinned |-> s, retrieved |-> t,
                  pinned1 |-> <<>>, retrieved1 |-> <<>>,
                  pinned2 |-> <<>>, retrieved2 |-> <<>>]

NormaliseOnce ==
    /\ norm.stage = "raw"
    /\ norm' = [norm EXCEPT !.stage = "once",
                            !.pinned1 = StripWhitespace(norm.pinned),
                            !.retrieved1 = StripWhitespace(norm.retrieved)]
    /\ UNCHANGED <<handlerVars, ext>>

NormaliseAgain ==
    /\ norm.stage = "once"
    /\ norm' = [norm EXCEPT !.stage = "twice",
                            !.pinned2 = StripWhitespace(norm.pinned1),
                            !.retrieved2 = StripWhitespace(norm.retrieved1)]
    /\ UNCHANGED <<handlerVars, ext>>

NextNorm ==
    \/ NormaliseOnce
    \/ NormaliseAgain

SpecNorm == InitNorm /\ [][NextNorm]_vars

----------------------------------------------------------------------------
(* SpecExtract: one call of extract_certificate *)

ChainsUpTo(n) == {<<>>} \cup PemChainsUpTo(n)

InitExtract ==
    /\ HandlerIdle
    /\ norm = NormIdle
    /\ \E c \in ChainsUpTo(MaxChainLen), i \in 0..MaxIndex :
          ext = [stage |-> "args", cert_chain |-> c, index |-> i,
                 result |-> [kind |-> "none"]]

\* the call leaves its argument list as it was: the body only reads it
CallExtract ==
    /\ ext.stage = "args"
    /\ ext' = [ext EXCEPT !.stage = "called",
                          !.result = extract_certificate(ext.cert_chain, ext.index)]
    /\ UNCHANGED <<handlerVars, norm>>

NextExtract == CallExtract

SpecExtract == InitExtract /\ [][NextExtract]_vars

----------------------------------------------------------------------------
(* Properties *)

\* s without its whitespace characters
NonSpace(s) == SelectSeq(s, IsNonSpace)
HasNoWhitespace(s) == \A i \in 1..Len(s) : s[i] \notin WhitespaceChars

Returned == pc = "done"
Effect == policy.policyDocument.Statement[1].Effect
Configured == server_config # NoConfig
Compared == cert_results # NoResults

\* the dictionary parsed from the secret, when the secret was one
HasSecretDict ==
    /\ secret_outcome.kind = "return"
    /\ "SecretString" \in DOMAIN secret_outcome.value
    /\ secret_outcome.value.SecretString.type = "dict"
SecretDict == secret_outcome.value.SecretString.items

RoleField(i) ==
    IF i = 0 THEN "ServerCert" ELSE IF i = 1 THEN "IntermediateCert" ELSE "RootCert"
\* the pinned text of position i as the secret stores it
PinnedRaw(i) == SecretDict[RoleField(i)].value
\* position i of the retrieved chain is present and equals the pin up to whitespace
PositionMatches(i) ==
    /\ Len(retrieved_cert_chain) > i
    /\ NonSpace(retrieved_cert_chain[i + 1]) = NonSpace(PinnedRaw(i))

\* C1: once a configuration was constructed, the handler returns Allow exactly
\* when each of the positions 0, 1, 2 of the retrieved chain is present and
\* equals its pin after all whitespace is removed from both; otherwise Deny.
C1_AllowIffAllThreeMatch ==
    (Returned /\ Configured) =>
        /\ Effect \in {"Allow", "Deny"}
        /\ (Effect = "Allow") <=> (\A i \in 0..2 : PositionMatches(i))

\* Allow was returned for entries whose text differs from the stored pins
C1_Witness ==
    /\ Returned /\ Configured /\ Effect = "Allow"
    /\ \A i \in 0..2 : retrieved_cert_chain[i + 1] # PinnedRaw(i)
    /\ \E i \in 0..2 : ~HasNoWhitespace(PinnedRaw(i))

\* Deny was returned after a comparison in which one position alone differed
C1_WitnessDeny ==
    /\ Returned /\ Compared /\ Effect = "Deny"
    /\ cert_results.Server /\ ~cert_results.Intermediate /\ cert_results.Root

ResultAt(i) ==
    IF i = 0 THEN cert_results.Server
    ELSE IF i = 1 THEN cert_results.Intermediate ELSE cert_results.Root

\* C2: a retrieved chain of fewer than 3 entries never yields Allow; an absent
\* position is a non-match whatever the pin is, the empty pin included.
C2_ShortChainDenied ==
    (Returned /\ retrieve_calls > 0 /\ Len(retrieved_cert_chain) < 3) =>
        /\ Effect = "Deny"
        /\ Compared =>
              \A i \in 0..2 : Len(retrieved_cert_chain) <= i => ~ResultAt(i)

\* two entries, both matching, and an empty root pin facing the absent position
C2_Witness ==
    /\ Returned /\ Compared
    /\ Len(retrieved_cert_chain) = 2
    /\ cert_results.Server /\ cert_results.Intermediate
    /\ server_config.RootCert = <<>>
    /\ Effect = "Deny"

\* C3: every failure during retrieval yields the empty chain and leaves the
\* handler without an escaping exception; an empty retrieved chain is denied.
C3_FailClosedRetrieval ==
    /\ tls_behaviour \in TlsFailures =>
          /\ retrieved_cert_chain = <<>>
          /\ pc # "raised"
    /\ (Returned /\ retrieve_calls > 0 /\ retrieved_cert_chain = <<>>) =>
          Effect = "Deny"

\* a name-resolution failure ended in a returned Deny
C3_Witness ==
    /\ Returned
    /\ tls_behaviour.stage = "resolve"
    /\ retrieved_cert_chain = <<>>
    /\ Effect = "Deny"

\* a field of the secret that is absent, null or empty, or a port that is not positive
InvalidSecretDict(d) ==
    \/ \E f \in CertFields :
          f \notin DOMAIN d \/ ~IsStr(d[f]) \/ d[f].value = <<>>
    \/ "URL" \notin DOMAIN d \/ d["URL"] = ""
    \/ "Port" \notin DOMAIN d \/ d["Port"] <= 0

\* C4: a secret with an absent or empty certificate or host field, or a port
\* that is not positive, is rejected at construction and no retrieval is made.
C4_InvalidConfigRejected ==
    (HasSecretDict /\ InvalidSecretDict(SecretDict)) =>
        /\ ~Configured
        /\ retrieve_calls = 0

WellFormedPolicy(p) ==
    /\ DOMAIN p = {"principalId", "policyDocument"}
    /\ Len(p.policyDocument.Statement) = 1
    /\ p.policyDocument.Statement[1].Effect \in {"Allow", "Deny"}

\* C5: no exception leaves lambda_handler, and what it returns is a well-formed
\* policy whose effect is Allow or Deny.
C5_AlwaysReturnsDecision ==
    /\ pc # "raised"
    /\ Returned => WellFormedPolicy(policy)

SecretNameMissing == ~(IsStr(env_secret_name) /\ env_secret_name.value # "")
PastLoad == pc \in {"retrieve", "check", "compare", "done"}

\* C6: retrieval is called at most once and only with a constructed
\* configuration; without a secret name or without a configuration the handler
\* returns Deny and neither retrieval nor comparison has run.
C6_RetrievalAfterConfigOnce ==
    /\ retrieve_calls <= 1
    /\ pc \in {"retrieve", "check", "compare"} => Configured
    /\ (retrieve_calls > 0 \/ tls_behaviour # NoBehaviour \/ Compared) =>
          (Configured /\ ~SecretNameMissing)
    /\ ((pc # "start" /\ SecretNameMissing) \/ (PastLoad /\ ~Configured)) =>
          /\ retrieve_calls = 0
          /\ ~Compared
          /\ Returned => Effect = "Deny"

\* the secret store failed and Deny was returned without a retrieval
C6_Witness ==
    /\ Returned
    /\ secret_outcome = Raise("ClientError")
    /\ Effect = "Deny"
    /\ retrieve_calls = 0

\* the one retrieval, made with a constructed configuration
C6_WitnessRetrieved ==
    /\ Returned /\ Configured /\ retrieve_calls = 1 /\ Compared

\* C7: a constructed ServerConfig holds certificate texts without any
\* whitespace character, and no later step changes the ServerConfig.
C7_PinsStrippedAndFrozen ==
    /\ [](Configured => \A f \in CertFields : HasNoWhitespace(server_config[f]))
    /\ [][Configured => server_config' = server_config]_vars

\* a pin stored with surrounding and inner whitespace went through retrieval
\* and comparison
C7_Witness ==
    /\ Returned /\ Configured /\ Compared
    /\ HasSecretDict
    /\ SecretDict.ServerCert.value = <<" ", "A", "\n", "B">>
    /\ server_config.ServerCert = <<"A", "B">>

\* C8: for an index i >= 0, extract_certificate returns the entry at i without
\* its whitespace when i < len(chain) and None otherwise; it never raises and
\* the chain stays as it was.
C8_ExtractByPosition ==
    /\ [](ext.stage = "called" =>
            /\ ext.result.kind = "return"
            /\ ext.index < Len(ext.cert_chain) =>
                  ext.result.value = PyStr(NonSpace(ext.cert_chain[ext.index + 1]))
            /\ ext.index >= Len(ext.cert_chain) => ext.result.value = PyNone)
    /\ [][ext'.cert_chain = ext.cert_chain]_vars

\* the index just past the end of a chain gave None
C8_Witness ==
    /\ ext.stage = "called"
    /\ Len(ext.cert_chain) = 2
    /\ ext.index = 2
    /\ ext.result = Return(PyNone)

\* an entry holding whitespace was returned without it
C8_WitnessPresent ==
    /\ ext.stage = "called"
    /\ ext.index = 1
    /\ Len(ext.cert_chain) > 1
    /\ ext.result.value.type = "str"
    /\ ext.result.value.value # ext.cert_chain[2]

\* C9: normalising a normalised text changes nothing; two texts that differ
\* only in whitespace are equal once normalised; and a second normalisation
\* of either side leaves the outcome of the comparison as it was.
C9_NormalisationIdempotent ==
    /\ norm.stage \in {"once", "twice"} =>
          /\ HasNoWhitespace(norm.pinned1) /\ HasNoWhitespace(norm.retrieved1)
          /\ NonSpace(norm.pinned) = NonSpace(norm.retrieved) =>
                norm.pinned1 = norm.retrieved1
    /\ norm.stage = "twice" =>
          /\ norm.pinned2 = norm.pinned1
          /\ norm.retrieved2 = norm.retrieved1
          /\ (norm.pinned2 = norm.retrieved1) <=> (norm.pinned1 = norm.retrieved1)
          /\ (norm.pinned1 = norm.retrieved2) <=> (norm.pinned1 = norm.retrieved1)

\* two different texts with inner whitespace, equal after normalisation
C9_Witness ==
    /\ norm.stage = "twice"
    /\ norm.pinned = <<"A", "\n", "B">>
    /\ norm.retrieved = <<"A", "B", " ">>
    /\ norm.pinned2 = norm.retrieved2

\* chains that continue the first three entries of c, up to the longest chain
Continuations(c) ==
    {SubSeq(c, 1, 3) \o t : t \in ChainsUpTo(MaxChainLen - 3)}

\* C10: entries at positions 3 and beyond do not influence the decision: every
\* chain with the same first three entries gets the same effect, and a longer
\* chain whose first three entries match the pins is allowed.
C10_LaterEntriesIgnored ==
    (Returned /\ Compared) =>
        /\ Len(retrieved_cert_chain) >= 3 =>
              \A other \in Continuations(retrieved_cert_chain) :
                 LET r == CompareCertificates(server_config, other)
                 IN  r.kind = "return" /\ EffectFor(r.value) = Effect
        /\ (Len(retrieved_cert_chain) > 3 /\ \A i \in 0..2 : PositionMatches(i)) =>
              Effect = "Allow"

\* Allow for a chain of four entries whose fourth is another certificate
C10_Witness ==
    /\ Returned /\ Compared /\ Effect = "Allow"
    /\ Len(retrieved_cert_chain) = 4
    /\ NonSpace(retrieved_cert_chain[4]) # server_config.RootCert

====
